---- MODULE Spec2Model ----
(***************************************************************************)
(* Graph-representation benchmark: the randomized edge generator, the four *)
(* graph builders (bitset adjacency matrix, adjacency list, hybrid,        *)
(* object/link graph) and their queries.                                   *)
(*                                                                         *)
(* The command-line program (profile.ts) and the web module                *)
(* (lib/benchmark.ts) carry the same genEdges and the same four builders,  *)
(* statement for statement; the definitions below follow the command-line  *)
(* file and name the web lines where the two differ.                       *)
(***************************************************************************)
EXTENDS Integers, Sequences, FiniteSets, TLC

\* ------------------------------------------------------------------ bounds
\* Largest vertex count drawn for a generated edge sequence.  7 is the first
\* size at which a forward edge (u < v) has its bit in the second 32-bit word.
MaxN == 7
\* Largest edge count floor(n * avgOutDeg) drawn.
MaxM == 2
\* Largest requested average out-degree, counted in quarters (6 means 1.5).
MaxDegQuarters == 8
\* Largest vertex count and edge count of an arbitrary (not generated) edge
\* sequence.  6 is the first size whose n * n bits need two 32-bit words.
MaxAnyN == 6
MaxAnyM == 2
\* The same with coupled bounds: short sequences over few vertices, and
\* shorter ones over enough vertices for a second 32-bit word.
MaxSeqN == 3
MaxSeqM == 2
MaxWideN == 6
MaxWideM == 1
\* The benchmark loops: longest size list, largest size, largest integer
\* degree, lookup-sample count and base repetition count, and the longest
\* time in ms the clock advances over one timed region.
MaxSizes == 2
MaxBenchN == 2
MaxBenchDeg == 1
MaxSamples == 1
MaxReps == 2
MaxTick == 1
\* The memory estimate on its own: largest vertex count and largest edge
\* count.  49 edges over 11 vertices is the smallest input at which the
\* rounding of n * (edges.length / n) shows above the 0.001 floor.
MaxMemN == 11
MaxMemM == 49
\* The page: largest size in a (one-element or empty) size list, and the
\* number of executions of runRealBenchmark that can be pending at once.
MaxPageN == 2
MaxExecs == 2
\* benchHasEdge on its own: largest vertex count, longest edge list the
\* structure is built from, largest sample count, and the latest reading of
\* the clock at t0.
MaxHasN == 2
MaxHasM == 1
MaxHasSamples == 2
MaxClock == 1

VARIABLES
    n,          \* vertex count handed to genEdges and to the builders
    avgOutDeg,  \* requested average out-degree, in quarters
    edges,      \* the edge sequence (genEdges' local `edges`, then its result)
    pc,         \* position of the harness
    am,         \* result of makeAM(n, edges)
    al,         \* result of makeAL(n, edges)
    amal,       \* result of makeAM_AL(n, edges)
    oop,        \* result of makeOOP(n, edges)
    entry,      \* "cli" (main of profile.ts), "web" (runRealBenchmark) or
                \* "harness" (the builders applied on their own)
    SIZES,      \* SIZES / config.sizes
    LOOKUP_SAMPLES,  \* LOOKUP_SAMPLES / config.samples
    TRAVERSAL_REPS,  \* TRAVERSAL_REPS / config.reps
    sizeIdx,    \* position of the for loop in SIZES (1-based)
    vi,         \* the variant block the loop body is in (1..4)
    tick,       \* t1 - t0 of a timed region: what the clock advances between
                \* the two nowMs() readings around a benchmark loop, taken
                \* to be the same for every region of one run
    calls,      \* builder invocations of this iteration, per variant
    refs,       \* per variant: the variables and fields of the loop body
                \* that hold the structure ("res.structure" is the field of xRes,
                \* "struct" is the constant xStruct)
    lookup,     \* the last result of benchHasEdge
    trav,       \* the last result of benchTraversals
    lookupNs,   \* per variant: the quotient (lookup.ms * 1e6) / samples
    outNs,      \* per variant: the quotient (trav.outMs * 1e6) / (n * R)
    inNs,       \* per variant: the quotient (trav.inMs * 1e6) / (n * R)
    sparsity,   \* web: the quotient edges.length / maxPossibleEdges
    progress,   \* web: the last value handed to onProgress, as <<num, den>>
    rows,       \* rows / results
    log,        \* the steps of the current loop-body iteration, in order:
                \* "settle", "sleep", "readMemory", "build", "lookup",
                \* "traverse", "row"
    mem,        \* web measureMemoryDeltaMB on its own: the variant, n and
                \* edges.length it was called with, the deltaMB it returned,
                \* and the same of the call before
    config,     \* page: the sizes of the config state of Home
    isRunning,  \* page: the isRunning state
    pageProgress,   \* page: the progress state
    results,    \* page: the results state (the n of each row)
    execs,      \* page: the executions of runRealBenchmark that have started
                \* and whose promise has not been settled and handled
    effectConfig,   \* page: whether BenchmarkRunner is mounted, and the
                \* config its effect last ran with
    lastRun,    \* page: how the await of handleRun's latest call of
                \* runRealBenchmark ended ("pending" until then), and the
                \* rows it returned
    bh          \* benchHasEdge on its own: its locals pairs, t0, t1, i and
                \* cnt, and the number of struct.has calls it has made

coreVars == <<n, avgOutDeg, edges, pc, am, al, amal, oop>>
configVars == <<entry, SIZES, LOOKUP_SAMPLES, TRAVERSAL_REPS, tick>>
resultVars == <<lookup, trav, lookupNs, outNs, inNs>>
benchVars == <<configVars, sizeIdx, vi, calls, refs, resultVars, sparsity,
               progress, rows, log>>
pageVars == <<config, isRunning, pageProgress, results, execs, effectConfig,
              lastRun>>
otherVars == <<mem, pageVars, bh>>
vars == <<coreVars, benchVars, otherVars>>

\* ----------------------------------------------------------------- helpers
Max(a, b) == IF a >= b THEN a ELSE b
Min(a, b) == IF a <= b THEN a ELSE b

Range(s) == {s[i] : i \in 1..Len(s)}

\* Sum of the lengths of f[x] over the domain of f.
RECURSIVE SumLen(_, _)
SumLen(f, S) ==
    IF S = {} THEN 0
    ELSE LET x == CHOOSE y \in S : TRUE
         IN Len(f[x]) + SumLen(f, S \ {x})

\* A structure that has not been constructed, and the outcome of a builder
\* that raised a TypeError (reading a property of undefined).
NotBuilt == [status |-> "none"]
Threw == [status |-> "threw"]

\* ------------------------------------------------------------ random source
\* randInt(k): every value (Math.random() * k) | 0 can take, Math.random()
\* being in [0, 1).  The product lies in [0, k) for k > 0, is 0 for k = 0 and
\* lies in (k, 0] for k < 0; | 0 truncates toward zero.
randInt(k) == IF k > 0 THEN 0..(k - 1) ELSE IF k = 0 THEN {0} ELSE (k + 1)..0

\* ---------------------------------------------------------------- genEdges
\* A variant of genEdgesM: rounding up instead of down.
genEdgesMCeil(nn, d) == Max(0, (nn * d + 3) \div 4)

\* m = Math.max(0, Math.floor(n * avgOutDeg)); the degree is held in
\* quarters, so n * avgOutDeg is (n * quarters) / 4.
genEdgesM(nn, d) == Max(0, (nn * d) \div 4)

\* A variant of genEdgesV: the + 1 left out.
genEdgesVNoStep(nn, u) == {u + r : r \in randInt(nn - 1 - u)}

\* v = u + 1 + randInt(n - 1 - u)
genEdgesV(nn, u) == {u + 1 + r : r \in randInt(nn - 1 - u)}

\* ------------------------------------------------------------------ makeAM
\* idx >>> 5 on a 32-bit value: for idx < 0 the unsigned value is 2^32 + idx.
Ushr5(idx) == IF idx >= 0 THEN idx \div 32 ELSE 134217728 + (idx \div 32)

\* idx & 31
And31(idx) == idx % 32

\* A variant of amBits: the word count rounded down.
amBitsFloor(nn) == [w \in 0..(((nn * nn) \div 32) - 1) |-> {}]

\* new Uint32Array(Math.ceil((n * n) / 32)); a word is the set of its 1 bits.
amBits(nn) == [w \in 0..(((nn * nn + 31) \div 32) - 1) |-> {}]

\* A variant of amIdx: row and column exchanged.
amIdxTransposed(nn, u, v) == v * nn + u

\* bits[idx >>> 5] |= (1 << (idx & 31)); a store past the end of a typed
\* array is dropped.
amIdx(nn, u, v) == u * nn + v

amSet(bits, nn, u, v) ==
    LET idx == amIdx(nn, u, v)
        w == Ushr5(idx)
    IN IF w \in DOMAIN bits
       THEN [bits EXCEPT ![w] = @ \cup {And31(idx)}]
       ELSE bits

\* (bits[idx >>> 5] >>> (idx & 31)) & 1, as a truth value; a load past the
\* end yields undefined, which >>> turns into 0.
amHas(bits, nn, u, v) ==
    LET idx == u * nn + v
        w == Ushr5(idx)
    IN IF w \in DOMAIN bits THEN And31(idx) \in bits[w] ELSE FALSE

RECURSIVE amSetAll(_, _, _, _)
amSetAll(bits, nn, es, i) ==
    IF i > Len(es) THEN bits
    ELSE amSetAll(amSet(bits, nn, es[i][1], es[i][2]), nn, es, i + 1)

makeAM(nn, es) ==
    [status |-> "ok", n |-> nn, bits |-> amSetAll(amBits(nn), nn, es, 1)]

amOutNeighbors(s, u) ==
    LET scan[v \in 0..s.n] ==
            IF v = s.n THEN <<>>
            ELSE (IF amHas(s.bits, s.n, u, v) THEN <<v>> ELSE <<>>) \o scan[v + 1]
    IN scan[0]

amInNeighbors(s, v) ==
    LET scan[u \in 0..s.n] ==
            IF u = s.n THEN <<>>
            ELSE (IF amHas(s.bits, s.n, u, v) THEN <<u>> ELSE <<>>) \o scan[u + 1]
    IN scan[0]

\* ------------------------------------------------------------------ makeAL
\* A variant of alPush: the edge recorded in both directions.
alPushUndirected(st, e) ==
    IF st.status # "ok" THEN st
    ELSE IF e[1] \notin DOMAIN st.out THEN Threw
    ELSE IF e[2] \notin DOMAIN st.inn THEN Threw
    ELSE [st EXCEPT !.out = [@ EXCEPT ![e[1]] = Append(@, e[2]),
                                      ![e[2]] = Append(@, e[1])],
                    !.inn[e[2]] = Append(@, e[1])]

\* out[u].push(v); inn[v].push(u): out[u] or inn[v] is undefined when the
\* index is not in 0..n-1, and calling push on it raises a TypeError.
alPush(st, e) ==
    IF st.status # "ok" THEN st
    ELSE IF e[1] \notin DOMAIN st.out THEN Threw
    ELSE IF e[2] \notin DOMAIN st.inn THEN Threw
    ELSE [st EXCEPT !.out[e[1]] = Append(@, e[2]),
                    !.inn[e[2]] = Append(@, e[1])]

RECURSIVE alPushAll(_, _, _)
alPushAll(st, es, i) ==
    IF i > Len(es) THEN st ELSE alPushAll(alPush(st, es[i]), es, i + 1)

\* outSet = out.map(arr => new Set(arr))
alOutSet(out) == [u \in DOMAIN out |-> Range(out[u])]

makeAL(nn, es) ==
    LET st == alPushAll([status |-> "ok", n |-> nn,
                         out |-> [u \in 0..(nn - 1) |-> <<>>],
                         inn |-> [v \in 0..(nn - 1) |-> <<>>]], es, 1)
    IN IF st.status # "ok" THEN Threw
       ELSE [status |-> "ok", n |-> nn, out |-> st.out, inn |-> st.inn,
             outSet |-> alOutSet(st.out)]

alHas(s, u, v) == v \in s.outSet[u]
alOutNeighbors(s, u) == s.out[u]
alInNeighbors(s, v) == s.inn[v]

\* --------------------------------------------------------------- makeAM_AL
\* A variant of amalIdx: the row offset left out.
amalIdxDropRow(nn, u, v) == v

\* const idx = u * n + v, the hybrid's own copy of the addressing formula.
amalIdx(nn, u, v) == u * nn + v

\* One pass over the edges updates the bitset, then out[u] and inn[v].
amalPush(st, e) ==
    IF st.status # "ok" THEN st
    ELSE LET idx == amalIdx(st.n, e[1], e[2])
             w == Ushr5(idx)
             bits2 == IF w \in DOMAIN st.bits
                      THEN [st.bits EXCEPT ![w] = @ \cup {And31(idx)}]
                      ELSE st.bits
         IN IF e[1] \notin DOMAIN st.out THEN Threw
            ELSE IF e[2] \notin DOMAIN st.inn THEN Threw
            ELSE [st EXCEPT !.bits = bits2,
                            !.out[e[1]] = Append(@, e[2]),
                            !.inn[e[2]] = Append(@, e[1])]

RECURSIVE amalPushAll(_, _, _)
amalPushAll(st, es, i) ==
    IF i > Len(es) THEN st ELSE amalPushAll(amalPush(st, es[i]), es, i + 1)

makeAM_AL(nn, es) ==
    LET st == amalPushAll([status |-> "ok", n |-> nn,
                           bits |-> makeAM(nn, <<>>).bits,
                           out |-> [u \in 0..(nn - 1) |-> <<>>],
                           inn |-> [v \in 0..(nn - 1) |-> <<>>]], es, 1)
    IN IF st.status # "ok" THEN Threw
       ELSE [status |-> "ok", n |-> nn, bits |-> st.bits,
             out |-> st.out, inn |-> st.inn, outSet |-> alOutSet(st.out)]

\* The two lookups has combines: amResult and alResult.
amalAmResult(s, u, v) == amHas(s.bits, s.n, u, v)
amalAlResult(s, u, v) == v \in s.outSet[u]

\* return amResult || alResult
amalHas(s, u, v) == amalAmResult(s, u, v) \/ amalAlResult(s, u, v)
amalOutNeighbors(s, u) == s.out[u]
amalInNeighbors(s, v) == s.inn[v]

\* ----------------------------------------------------------------- makeOOP
\* new MyLink(from, to)
MyLink(from, to) == [from |-> from, to |-> to]

\* new MyNode(id): outputs and inputs start as empty arrays of buckets.
MyNode(id) == [id |-> id, outputs |-> <<>>, inputs |-> <<>>]

\* A variant of PushSlot0: the link put in front of the bucket.
PushSlot0Front(buckets, link) ==
    IF Len(buckets) = 0 THEN <<<<link>>>>
    ELSE [buckets EXCEPT ![1] = <<link>> \o @]

\* A missing bucket 0 is created on first use, then the link is pushed.
PushSlot0(buckets, link) ==
    IF Len(buckets) = 0 THEN <<<<link>>>>
    ELSE [buckets EXCEPT ![1] = Append(@, link)]

\* connect(u, v): nodes[u] or nodes[v] is undefined when the index is not a
\* node id, and reading .outputs / .inputs of it raises a TypeError.
connect(net, u, v) ==
    IF net.status # "ok" THEN net
    ELSE IF u \notin DOMAIN net.nodes THEN Threw
    ELSE IF v \notin DOMAIN net.nodes THEN Threw
    ELSE LET link == MyLink(u, v)
             nodes1 == [net.nodes EXCEPT ![u].outputs = PushSlot0(@, link)]
             nodes2 == [nodes1 EXCEPT ![v].inputs = PushSlot0(@, link)]
         IN [net EXCEPT !.nodes = nodes2, !.links = Append(@, link)]

RECURSIVE connectAll(_, _, _)
connectAll(net, es, i) ==
    IF i > Len(es) THEN net
    ELSE connectAll(connect(net, es[i][1], es[i][2]), es, i + 1)

makeOOP(nn, es) ==
    LET net == connectAll([status |-> "ok", n |-> nn,
                           nodes |-> [i \in 0..(nn - 1) |-> MyNode(i)],
                           links |-> <<>>], es, 1)
    IN IF net.status # "ok" THEN Threw ELSE net

\* hasEdge: linear scan of bucket 0 of nodes[u].outputs.
hasEdge(net, u, v) ==
    LET outputs == net.nodes[u].outputs
    IN IF Len(outputs) = 0 THEN FALSE
       ELSE \E i \in 1..Len(outputs[1]) : outputs[1][i].to = v

oopOutNeighbors(net, u) ==
    LET outputs == net.nodes[u].outputs
    IN IF Len(outputs) = 0 THEN <<>>
       ELSE [i \in 1..Len(outputs[1]) |-> outputs[1][i].to]

\* A variant of oopInNeighbors: the link's target read instead of its source.
oopInNeighborsTo(net, v) ==
    LET inputs == net.nodes[v].inputs
    IN IF Len(inputs) = 0 THEN <<>>
       ELSE [i \in 1..Len(inputs[1]) |-> inputs[1][i].to]

\* inNeighbors: the from of every link of bucket 0 of nodes[v].inputs.
oopInNeighbors(net, v) ==
    LET inputs == net.nodes[v].inputs
    IN IF Len(inputs) = 0 THEN <<>>
       ELSE [i \in 1..Len(inputs[1]) |-> inputs[1][i].from]

\* ------------------------------------------------- the four variants' contract
Variants == {"AM", "AL", "AM+AL", "OOP"}

Struct(k) ==
    CASE k = "AM" -> am
      [] k = "AL" -> al
      [] k = "AM+AL" -> amal
      [] k = "OOP" -> oop

has(k, u, v) ==
    CASE k = "AM" -> amHas(am.bits, am.n, u, v)
      [] k = "AL" -> alHas(al, u, v)
      [] k = "AM+AL" -> amalHas(amal, u, v)
      [] k = "OOP" -> hasEdge(oop, u, v)

outNeighbors(k, u) ==
    CASE k = "AM" -> amOutNeighbors(am, u)
      [] k = "AL" -> alOutNeighbors(al, u)
      [] k = "AM+AL" -> amalOutNeighbors(amal, u)
      [] k = "OOP" -> oopOutNeighbors(oop, u)

inNeighbors(k, v) ==
    CASE k = "AM" -> amInNeighbors(am, v)
      [] k = "AL" -> alInNeighbors(al, v)
      [] k = "AM+AL" -> amalInNeighbors(amal, v)
      [] k = "OOP" -> oopInNeighbors(oop, v)

Built(k) == Struct(k).status = "ok"
AllBuilt == \A k \in Variants : Built(k)

V == 0..(n - 1)

\* ------------------------------------------------------------ state machine
\* A quotient a / b the loop evaluates, kept as its two operands, and the
\* value of a result that has not been computed.
Quot(a, b) == [set |-> TRUE, num |-> a, den |-> b]
NoValue == [set |-> FALSE, num |-> 0, den |-> 1]
NoValues == [k \in Variants |-> NoValue]
NoCalls == [k \in Variants |-> 0]
NoRefs == [k \in Variants |-> {}]
NoLookup == [ms |-> 0, hits |-> 0]
NoTrav == [outMs |-> 0, inMs |-> 0, touched |-> 0]

NothingBuilt ==
    /\ am = NotBuilt
    /\ al = NotBuilt
    /\ amal = NotBuilt
    /\ oop = NotBuilt

\* A double that is NaN, and one that is the sum of 2^p over p in bits.
NaN == [nan |-> TRUE, bits |-> {}]
Double(bits) == [nan |-> FALSE, bits |-> bits]

\* measureMemoryDeltaMB has not been called; the page as first rendered.
NoBefore == [n |-> 0, m |-> 0, deltaMB |-> Double({})]
NoMem == [kind |-> "none", n |-> 0, m |-> 0, deltaMB |-> Double({}),
          grown |-> FALSE, before |-> NoBefore]
Unmounted == [mounted |-> FALSE, sizes |-> <<>>]
NoRun == [outcome |-> "none", rows |-> <<>>]
PageIdle ==
    /\ config = <<>>
    /\ isRunning = FALSE
    /\ pageProgress = <<0, 1>>
    /\ results = <<>>
    /\ execs = <<>>
    /\ effectConfig = Unmounted
    /\ lastRun = NoRun
\* benchHasEdge has not been entered: t0 and t1 are not read (-1).
NoBh == [pairs |-> <<>>, t0 |-> -1, t1 |-> -1, i |-> 0, cnt |-> 0, calls |-> 0]
HasIdle == bh = NoBh
OtherIdle ==
    /\ mem = NoMem
    /\ PageIdle
    /\ HasIdle

\* The benchmark loop is not running: the builders are applied on their own.
BenchIdle ==
    /\ entry = "harness"
    /\ SIZES = <<>>
    /\ LOOKUP_SAMPLES = 0
    /\ TRAVERSAL_REPS = 0
    /\ sizeIdx = 1
    /\ vi = 1
    /\ tick = 0
    /\ calls = NoCalls
    /\ refs = NoRefs
    /\ lookup = NoLookup
    /\ trav = NoTrav
    /\ lookupNs = NoValues
    /\ outNs = NoValues
    /\ inNs = NoValues
    /\ sparsity = NoValue
    /\ progress = <<0, 1>>
    /\ rows = <<>>
    /\ log = <<>>

\* The inputs: a vertex count and a degree whose edge count stays in bounds.
Init ==
    /\ n \in 0..MaxN
    /\ avgOutDeg \in 0..MaxDegQuarters
    /\ genEdgesM(n, avgOutDeg) <= MaxM
    /\ edges = <<>>
    /\ pc = "genEdges"
    /\ NothingBuilt
    /\ BenchIdle
    /\ OtherIdle

\* One iteration of genEdges' loop: for (let i = 0; i < m; i++).
GenEdgesLoop ==
    /\ pc = "genEdges"
    /\ Len(edges) < genEdgesM(n, avgOutDeg)
    /\ \E u \in randInt(n - 1) :
         \E v \in genEdgesV(n, u) :
            edges' = Append(edges, <<u, v>>)
    /\ UNCHANGED <<n, avgOutDeg, pc, am, al, amal, oop, benchVars,
                   otherVars>>

\* The loop ends and genEdges returns edges.
GenEdgesReturn ==
    /\ pc = "genEdges"
    /\ ~(Len(edges) < genEdgesM(n, avgOutDeg))
    /\ pc' = CASE entry = "harness" -> "makeAM"
               [] entry = "cli" -> "measure"
               [] entry = "web" -> "sparsity"
    /\ UNCHANGED <<n, avgOutDeg, edges, am, al, amal, oop, benchVars,
                   otherVars>>

\* Each builder is applied to the same (n, edges).
MakeAM ==
    /\ pc = "makeAM"
    /\ am' = makeAM(n, edges)
    /\ pc' = "makeAL"
    /\ UNCHANGED <<n, avgOutDeg, edges, al, amal, oop, benchVars,
                   otherVars>>

MakeAL ==
    /\ pc = "makeAL"
    /\ al' = makeAL(n, edges)
    /\ pc' = "makeAM_AL"
    /\ UNCHANGED <<n, avgOutDeg, edges, am, amal, oop, benchVars,
                   otherVars>>

MakeAM_AL ==
    /\ pc = "makeAM_AL"
    /\ amal' = makeAM_AL(n, edges)
    /\ pc' = "makeOOP"
    /\ UNCHANGED <<n, avgOutDeg, edges, am, al, oop, benchVars, otherVars>>

MakeOOP ==
    /\ pc = "makeOOP"
    /\ oop' = makeOOP(n, edges)
    /\ pc' = "done"
    /\ UNCHANGED <<n, avgOutDeg, edges, am, al, amal, benchVars, otherVars>>

Next ==
    \/ GenEdgesLoop
    \/ GenEdgesReturn
    \/ MakeAM
    \/ MakeAL
    \/ MakeAM_AL
    \/ MakeOOP

Spec == Init /\ [][Next]_vars

\* Arbitrary edge sequences with endpoints in 0..n-1 (not only generated
\* ones): the builders' contract is stated for these as well.
InitAny ==
    /\ n \in 1..MaxAnyN
    /\ avgOutDeg = 0
    /\ edges = <<>>
    /\ pc = "anyEdges"
    /\ NothingBuilt
    /\ BenchIdle
    /\ OtherIdle

AnyEdge ==
    /\ pc = "anyEdges"
    /\ Len(edges) < MaxAnyM
    /\ \E u \in V : \E v \in V : edges' = Append(edges, <<u, v>>)
    /\ UNCHANGED <<n, avgOutDeg, pc, am, al, amal, oop, benchVars,
                   otherVars>>

\* The sequence is complete: all four builders are applied to it.
AnyBuild ==
    /\ pc = "anyEdges"
    /\ am' = makeAM(n, edges)
    /\ al' = makeAL(n, edges)
    /\ amal' = makeAM_AL(n, edges)
    /\ oop' = makeOOP(n, edges)
    /\ pc' = "done"
    /\ UNCHANGED <<n, avgOutDeg, edges, benchVars, otherVars>>

NextAny ==
    \/ AnyEdge
    \/ AnyBuild

SpecAny == InitAny /\ [][NextAny]_vars

\* Arbitrary in-range edge sequences once more, for the claims that compare
\* whole neighbour sequences and single bits: up to MaxSeqM edges over at
\* most MaxSeqN vertices (order and duplicates show), and up to MaxWideM
\* edges over up to MaxWideN vertices (the bitset has a second word).
SeqLen(nn) == IF nn <= MaxSeqN THEN MaxSeqM ELSE MaxWideM

InitSeq ==
    /\ n \in 1..MaxWideN
    /\ avgOutDeg = 0
    /\ edges = <<>>
    /\ pc = "seqEdges"
    /\ NothingBuilt
    /\ BenchIdle
    /\ OtherIdle

SeqEdge ==
    /\ pc = "seqEdges"
    /\ Len(edges) < SeqLen(n)
    /\ \E u \in V : \E v \in V : edges' = Append(edges, <<u, v>>)
    /\ UNCHANGED <<n, avgOutDeg, pc, am, al, amal, oop, benchVars,
                   otherVars>>

SeqBuild ==
    /\ pc = "seqEdges"
    /\ am' = makeAM(n, edges)
    /\ al' = makeAL(n, edges)
    /\ amal' = makeAM_AL(n, edges)
    /\ oop' = makeOOP(n, edges)
    /\ pc' = "done"
    /\ UNCHANGED <<n, avgOutDeg, edges, benchVars, otherVars>>

NextSeq ==
    \/ SeqEdge
    \/ SeqBuild

SpecSeq == InitSeq /\ [][NextSeq]_vars

\* ------------------------------------------------------- the benchmark loops
\* main of profile.ts ("cli") and runRealBenchmark of lib/benchmark.ts
\* ("web") run the same loop: for each size, genEdges, then for each of the
\* four variants a memory probe around the builder, benchHasEdge and
\* benchTraversals, then one row.
VariantOrder == <<"AM", "AL", "AM+AL", "OOP">>

\* Math.floor(Math.random() * k), the web module's randInt.
randIntWeb(k) == IF k > 0 THEN 0..(k - 1) ELSE IF k = 0 THEN {0} ELSE k..0

\* The value of a / b as JavaScript computes it (a >= 0, b >= 0).
Kind(q) == IF q.den # 0 THEN "finite" ELSE IF q.num = 0 THEN "NaN" ELSE "Infinity"

\* x.toFixed(digits): the quotient scaled by `scale` and rounded to an
\* integer; NaN and Infinity print as themselves.
toFixed(q, scale) ==
    [kind |-> Kind(q),
     digits |-> IF q.den # 0 THEN (2 * q.num * scale + q.den) \div (2 * q.den) ELSE 0]

\* The traversal repetition count:
\*   cli  Math.max(1, Math.floor(TRAVERSAL_REPS / Math.max(1, n)))
\*   web  Math.max(1, Math.floor(config.reps / Math.max(1, n / 100)))
cliReps(nn) == Max(1, TRAVERSAL_REPS \div Max(1, nn))
webReps(nn) ==
    Max(1, IF nn <= 100 THEN TRAVERSAL_REPS ELSE (TRAVERSAL_REPS * 100) \div nn)
Reps(nn) == IF entry = "web" THEN webReps(nn) ELSE cliReps(nn)

\* The query pairs benchHasEdge may draw:
\*   cli  u = randInt(n), v = u + 1 + (randInt(n - u - 1) | 0),
\*        pair [u, v < n ? v : n - 1]
\*   web  u = randInt(n), v = u + 1 + randInt(Math.max(1, n - u - 1)),
\*        pair [u, Math.min(v, n - 1)]
cliPairs(nn) ==
    UNION {{<<u, IF u + 1 + r < nn THEN u + 1 + r ELSE nn - 1>> :
                r \in randInt(nn - u - 1)} : u \in randInt(nn)}
webPairs(nn) ==
    UNION {{<<u, Min(u + 1 + r, nn - 1)>> :
                r \in randIntWeb(Max(1, nn - u - 1))} : u \in randIntWeb(nn)}
benchPairs(nn) == IF entry = "web" THEN webPairs(nn) ELSE cliPairs(nn)

\* struct.has(u, v) raises a TypeError when it reads a per-vertex entry that
\* does not exist: outSet[u] of the list and of the hybrid, nodes[u] of the
\* object graph.  The bitset never throws.
hasThrows(k, u, v) ==
    CASE k = "AM" -> FALSE
      [] k = "AL" -> u \notin DOMAIN al.outSet
      [] k = "AM+AL" -> u \notin DOMAIN amal.outSet
      [] k = "OOP" -> u \notin DOMAIN oop.nodes

\* The number of pairs of a query sequence that has finds.
Hits(k, pairs) == Cardinality({i \in 1..Len(pairs) : has(k, pairs[i][1], pairs[i][2])})

\* touched: the lengths of all neighbour sequences, once per repetition.
Touched(k, reps) ==
    reps * (SumLen([u \in V |-> outNeighbors(k, u)], V)
            + SumLen([v \in V |-> inNeighbors(k, v)], V))

Build(k) ==
    CASE k = "AM" -> makeAM(n, edges)
      [] k = "AL" -> makeAL(n, edges)
      [] k = "AM+AL" -> makeAM_AL(n, edges)
      [] k = "OOP" -> makeOOP(n, edges)

\* How often one memory probe invokes the builder: the cli's lambda for the
\* bitset is  makeAM(n, edges).valueOf ? makeAM(n, edges) : makeAM(n, edges).
BuilderCalls(k) == IF entry = "cli" /\ k = "AM" THEN 2 ELSE 1

\* The sizes and settings a run can be started with.  The cli parses its
\* arguments without any check; the web page's size box keeps n > 0 and its
\* sliders keep samples, reps and degree positive.
BenchInit ==
    /\ entry \in {"cli", "web"}
    /\ SIZES \in UNION {[1..len -> (IF entry = "web" THEN 1 ELSE 0)..MaxBenchN] :
                         len \in (IF entry = "web" THEN 0 ELSE 1)..MaxSizes}
    /\ LOOKUP_SAMPLES \in (IF entry = "web" THEN 1 ELSE 0)..MaxSamples
    /\ TRAVERSAL_REPS \in (IF entry = "web" THEN 1 ELSE 0)..MaxReps
    /\ avgOutDeg \in {4 * d : d \in (IF entry = "web" THEN 1 ELSE 0)..MaxBenchDeg}
    /\ \A i \in 1..Len(SIZES) : genEdgesM(SIZES[i], avgOutDeg) <= MaxM
    /\ n = 0
    /\ edges = <<>>
    /\ pc = "for"
    /\ NothingBuilt
    /\ sizeIdx = 1
    /\ vi = 1
    \* a timed region is below the clock's resolution or takes MaxTick ms
    /\ tick \in {0, MaxTick}
    /\ calls = NoCalls
    /\ refs = NoRefs
    /\ lookup = NoLookup
    /\ trav = NoTrav
    /\ lookupNs = NoValues
    /\ outNs = NoValues
    /\ inNs = NoValues
    /\ sparsity = NoValue
    /\ progress = <<0, 1>>
    /\ rows = <<>>
    /\ log = <<>>
    /\ OtherIdle

\* for (const n of SIZES): the next size; the body's constants start unset.
BenchFor ==
    /\ pc = "for"
    /\ sizeIdx <= Len(SIZES)
    /\ n' = SIZES[sizeIdx]
    /\ edges' = <<>>
    /\ pc' = "genEdges"
    /\ am' = NotBuilt
    /\ al' = NotBuilt
    /\ amal' = NotBuilt
    /\ oop' = NotBuilt
    /\ vi' = 1
    /\ calls' = NoCalls
    /\ refs' = NoRefs
    /\ lookup' = NoLookup
    /\ trav' = NoTrav
    /\ lookupNs' = NoValues
    /\ outNs' = NoValues
    /\ inNs' = NoValues
    /\ sparsity' = NoValue
    /\ log' = <<>>
    /\ UNCHANGED <<avgOutDeg, configVars, otherVars, sizeIdx, progress,
                   rows>>

\* The loop is over: the cli saves and prints rows, the web module reports
\* onProgress(100) and returns results.
BenchEnd ==
    /\ pc = "for"
    /\ sizeIdx > Len(SIZES)
    /\ pc' = "finished"
    /\ progress' = IF entry = "web" THEN <<100, 1>> ELSE progress
    /\ UNCHANGED <<n, avgOutDeg, edges, am, al, amal, oop, configVars,
                   otherVars, sizeIdx, vi, calls, refs, resultVars, sparsity,
                   rows, log>>

\* web: onProgress((i / config.sizes.length) * 100), then
\* maxPossibleEdges = n * (n - 1) and sparsity = edges.length / maxPossibleEdges.
WebSparsity ==
    /\ pc = "sparsity"
    /\ progress' = <<(sizeIdx - 1) * 100, Len(SIZES)>>
    /\ sparsity' = Quot(Len(edges), n * (n - 1))
    /\ pc' = "measure"
    /\ UNCHANGED <<n, avgOutDeg, edges, am, al, amal, oop, configVars,
                   otherVars, sizeIdx, vi, calls, refs, resultVars, rows,
                   log>>

\* The steps of one memory probe.  cli: settle, before = readMemoryMB(), the
\* builder, settle, after = readMemoryMB(); a builder that throws ends it.
\* web: the builder only (the estimate reads no memory and does not pause).
ProbeSteps(ok) ==
    IF entry = "cli"
    THEN IF ok THEN <<"settle", "readMemory", "build", "settle", "readMemory">>
         ELSE <<"settle", "readMemory", "build">>
    ELSE <<"build">>

\* The pause after a variant block and after the row: await settle() in the
\* cli (sleep, gcTry, sleep; gcTry catches and never throws), await sleep(10)
\* in the web module (no collection is requested).
PauseStep == IF entry = "cli" THEN "settle" ELSE "sleep"

\* measureMemoryDeltaMB(() => makeX(n, edges)): the builder runs inside the
\* probe (the cli settles before and after it); a TypeError of the builder
\* rejects the run.
BenchMeasure ==
    /\ pc = "measure"
    /\ LET k == VariantOrder[vi]
           s == Build(k)
       IN /\ calls' = [calls EXCEPT ![k] = @ + BuilderCalls(k)]
          /\ refs' = [refs EXCEPT ![k] = {"res.structure", "struct"}]
          /\ am' = IF k = "AM" THEN s ELSE am
          /\ al' = IF k = "AL" THEN s ELSE al
          /\ amal' = IF k = "AM+AL" THEN s ELSE amal
          /\ oop' = IF k = "OOP" THEN s ELSE oop
          /\ pc' = IF s.status = "ok" THEN "benchHasEdge" ELSE "threw"
          /\ log' = log \o ProbeSteps(s.status = "ok")
    /\ UNCHANGED <<n, avgOutDeg, edges, configVars, otherVars, sizeIdx, vi,
                   resultVars, sparsity, progress, rows>>

\* benchHasEdge(struct, n, LOOKUP_SAMPLES): the pairs are drawn, then the
\* has calls run between two readings of the clock; the caller divides
\* lookup.ms * 1e6 by the sample count.
BenchHasEdge ==
    /\ pc = "benchHasEdge"
    /\ LET k == VariantOrder[vi]
       IN \E pairs \in [1..LOOKUP_SAMPLES -> benchPairs(n)] :
            IF \E i \in 1..LOOKUP_SAMPLES : hasThrows(k, pairs[i][1], pairs[i][2])
            THEN /\ pc' = "threw"
                 /\ UNCHANGED resultVars
            ELSE /\ lookup' = [ms |-> tick, hits |-> Hits(k, pairs)]
                 /\ lookupNs' = [lookupNs EXCEPT
                                   ![k] = Quot(tick * 1000000, LOOKUP_SAMPLES)]
                 /\ pc' = "benchTraversals"
                 /\ UNCHANGED <<trav, outNs, inNs>>
    /\ log' = Append(log, "lookup")
    /\ UNCHANGED <<n, avgOutDeg, edges, am, al, amal, oop, configVars,
                   otherVars, sizeIdx, vi, calls, refs, sparsity, progress,
                   rows>>

\* benchTraversals(struct, n, R): R passes over outNeighbors, then R passes
\* over inNeighbors, each between two readings of the clock; the caller
\* divides each elapsed time * 1e6 by n * R.
BenchTraversals ==
    /\ pc = "benchTraversals"
    /\ LET k == VariantOrder[vi]
           R == Reps(n)
       IN /\ trav' = [outMs |-> tick, inMs |-> tick, touched |-> Touched(k, R)]
          /\ outNs' = [outNs EXCEPT ![k] = Quot(tick * 1000000, n * R)]
          /\ inNs' = [inNs EXCEPT ![k] = Quot(tick * 1000000, n * R)]
    /\ pc' = IF vi < Len(VariantOrder) THEN "release" ELSE "row"
    /\ log' = Append(log, "traverse")
    /\ UNCHANGED <<n, avgOutDeg, edges, am, al, amal, oop, configVars,
                   otherVars, sizeIdx, vi, calls, refs, lookup, lookupNs,
                   sparsity, progress, rows>>

\* Between two variants: the cli assigns null to the property structureRef
\* of xRes and settles, the web module sleeps 10 ms.  The structure is held
\* by the property structure of xRes and by the constant xStruct.
Released(held) == IF entry = "cli" THEN held \ {"res.structureRef"} ELSE held

\* A variant of BenchRelease: the edge sequence is generated anew for the
\* next variant.
BenchReleaseRegen ==
    /\ pc = "release"
    /\ refs' = [refs EXCEPT ![VariantOrder[vi]] = Released(@)]
    /\ vi' = vi + 1
    /\ edges' = <<>>
    /\ pc' = "genEdges"
    /\ log' = Append(log, PauseStep)
    /\ UNCHANGED <<n, avgOutDeg, am, al, amal, oop, configVars, otherVars,
                   sizeIdx, calls, resultVars, sparsity, progress, rows>>

BenchRelease ==
    /\ pc = "release"
    /\ refs' = [refs EXCEPT ![VariantOrder[vi]] = Released(@)]
    /\ vi' = vi + 1
    /\ pc' = "measure"
    /\ log' = Append(log, PauseStep)
    /\ UNCHANGED <<n, avgOutDeg, edges, am, al, amal, oop, configVars,
                   otherVars, sizeIdx, calls, resultVars, sparsity, progress,
                   rows>>

\* A variant of Row: the size taken from the head of the size list.
RowFirstSize ==
    [n |-> SIZES[1],
     edges |-> Len(edges),
     sparsity |-> IF entry = "web"
                  THEN toFixed([sparsity EXCEPT !.num = @ * 100], 100)
                  ELSE toFixed(NoValue, 100),
     hasEdge |-> [k \in Variants |-> toFixed(lookupNs[k], 10)],
     traverseOut |-> [k \in Variants |-> toFixed(outNs[k], 10)],
     traverseIn |-> [k \in Variants |-> toFixed(inNs[k], 10)]]

\* rows.push({...}) / results.push({...}), then the pause that ends the
\* iteration.
Row ==
    [n |-> n,
     edges |-> Len(edges),
     sparsity |-> IF entry = "web"
                  THEN toFixed([sparsity EXCEPT !.num = @ * 100], 100)
                  ELSE toFixed(NoValue, 100),
     hasEdge |-> [k \in Variants |-> toFixed(lookupNs[k], 10)],
     traverseOut |-> [k \in Variants |-> toFixed(outNs[k], 10)],
     traverseIn |-> [k \in Variants |-> toFixed(inNs[k], 10)]]

\* After the row the cli assigns null to alRes, amalRes and oopRes (not to
\* amRes, and not to the constants xStruct).
RowReleased ==
    [k \in Variants |->
        IF entry = "cli" /\ k # "AM" THEN refs[k] \ {"res.structure"} ELSE refs[k]]

BenchRow ==
    /\ pc = "row"
    /\ rows' = Append(rows, Row)
    /\ refs' = RowReleased
    /\ sizeIdx' = sizeIdx + 1
    /\ pc' = "for"
    /\ log' = log \o <<"row", PauseStep>>
    /\ UNCHANGED <<n, avgOutDeg, edges, am, al, amal, oop, configVars,
                   otherVars, vi, calls, resultVars, sparsity, progress>>

NextBench ==
    \/ BenchFor
    \/ GenEdgesLoop
    \/ GenEdgesReturn
    \/ WebSparsity
    \/ BenchMeasure
    \/ BenchHasEdge
    \/ BenchTraversals
    \/ BenchRelease
    \/ BenchRow
    \/ BenchEnd

SpecBench == BenchInit /\ [][NextBench]_vars

\* ------------------------------------------------- benchHasEdge on its own
\* benchHasEdge(struct, n, samples) statement by statement: the loop that
\* fills pairs, the reading of t0, the loop of struct.has calls, the reading
\* of t1, the return, and the caller's division.  struct is one variant
\* built from a generated edge list; n = 0 is a size the cli accepts.
\* The edges genEdges can push for n, and the lengths its result can have:
\* m = floor(n * avgOutDeg) is 0 for n = 0.
HasEdges(nn) == UNION {{<<u, v>> : v \in genEdgesV(nn, u)} : u \in randInt(nn - 1)}
HasLens(nn) == IF nn = 0 THEN {0} ELSE 0..MaxHasM

\* A variant of bhMs: the start timestamp left out.
bhMsFromZero(t0, t1) == t1

\* ms: (t1 - t0)
bhMs(t0, t1) == t1 - t0

HasInit ==
    /\ entry \in {"cli", "web"}
    /\ n \in 0..MaxHasN
    /\ avgOutDeg = 0
    /\ edges \in UNION {[1..len -> HasEdges(n)] : len \in HasLens(n)}
    /\ vi \in 1..4
    /\ am = IF VariantOrder[vi] = "AM" THEN makeAM(n, edges) ELSE NotBuilt
    /\ al = IF VariantOrder[vi] = "AL" THEN makeAL(n, edges) ELSE NotBuilt
    /\ amal = IF VariantOrder[vi] = "AM+AL" THEN makeAM_AL(n, edges) ELSE NotBuilt
    /\ oop = IF VariantOrder[vi] = "OOP" THEN makeOOP(n, edges) ELSE NotBuilt
    /\ Struct(VariantOrder[vi]).status = "ok"
    /\ LOOKUP_SAMPLES \in 0..MaxHasSamples
    /\ pc = "bh.pairs"
    /\ SIZES = <<>>
    /\ TRAVERSAL_REPS = 0
    /\ sizeIdx = 1
    /\ tick = 0
    /\ calls = NoCalls
    /\ refs = NoRefs
    /\ lookup = NoLookup
    /\ trav = NoTrav
    /\ lookupNs = NoValues
    /\ outNs = NoValues
    /\ inNs = NoValues
    /\ sparsity = NoValue
    /\ progress = <<0, 1>>
    /\ rows = <<>>
    /\ log = <<>>
    /\ mem = NoMem
    /\ PageIdle
    /\ bh = NoBh

hasQuiet == <<n, avgOutDeg, edges, am, al, amal, oop, configVars, sizeIdx, vi,
              calls, refs, trav, outNs, inNs, sparsity, progress, rows, log, mem,
              pageVars>>

\* for (let i = 0; i < samples; i++) { ...; pairs[i] = [u, v clamped] }
BhPair ==
    /\ pc = "bh.pairs"
    /\ Len(bh.pairs) < LOOKUP_SAMPLES
    /\ \E p \in benchPairs(n) : bh' = [bh EXCEPT !.pairs = Append(@, p)]
    /\ UNCHANGED <<hasQuiet, pc, lookup, lookupNs>>

\* const t0 = nowMs(); let cnt = 0;
BhT0 ==
    /\ pc = "bh.pairs"
    /\ ~(Len(bh.pairs) < LOOKUP_SAMPLES)
    /\ \E t \in 0..MaxClock : bh' = [bh EXCEPT !.t0 = t, !.i = 0, !.cnt = 0]
    /\ pc' = "bh.loop"
    /\ UNCHANGED <<hasQuiet, lookup, lookupNs>>

\* if (struct.has(pairs[i][0], pairs[i][1])) cnt++;  a TypeError of has
\* leaves benchHasEdge.
BhHas ==
    /\ pc = "bh.loop"
    /\ bh.i < LOOKUP_SAMPLES
    /\ LET k == VariantOrder[vi]
           p == bh.pairs[bh.i + 1]
       IN IF hasThrows(k, p[1], p[2])
          THEN /\ bh' = [bh EXCEPT !.calls = @ + 1]
               /\ pc' = "threw"
          ELSE /\ bh' = [bh EXCEPT !.calls = @ + 1,
                                   !.i = @ + 1,
                                   !.cnt = IF has(k, p[1], p[2]) THEN @ + 1 ELSE @]
               /\ pc' = pc
    /\ UNCHANGED <<hasQuiet, lookup, lookupNs>>

\* const t1 = nowMs(); the clock does not run backwards.
BhT1 ==
    /\ pc = "bh.loop"
    /\ ~(bh.i < LOOKUP_SAMPLES)
    /\ \E d \in 0..MaxTick : bh' = [bh EXCEPT !.t1 = bh.t0 + d]
    /\ pc' = "bh.return"
    /\ UNCHANGED <<hasQuiet, lookup, lookupNs>>

\* return { ms: (t1 - t0), hits: cnt }, and the caller's
\* (lookup.ms * 1e6) / LOOKUP_SAMPLES.
BhReturn ==
    /\ pc = "bh.return"
    /\ lookup' = [ms |-> bhMs(bh.t0, bh.t1), hits |-> bh.cnt]
    /\ lookupNs' = [lookupNs EXCEPT
                      ![VariantOrder[vi]] = Quot(lookup'.ms * 1000000, LOOKUP_SAMPLES)]
    /\ pc' = "done"
    /\ UNCHANGED <<hasQuiet, bh>>

NextHas ==
    \/ BhPair
    \/ BhT0
    \/ BhHas
    \/ BhT1
    \/ BhReturn

SpecHas == HasInit /\ [][NextHas]_vars

\* ------------------------------------------------------- double arithmetic
\* The numbers of the web memory estimate are IEEE 754 doubles.  A finite
\* double >= 0 is held exactly, as the set of the exponents of its 1 bits
\* (the sum of 2^p over the set); an operation computes the exact result and
\* rounds it to 53 significant bits, to nearest, ties to even.
Top(S) == CHOOSE p \in S : \A q \in S : q <= p
Shift(S, k) == {p + k : p \in S}

\* Exact sum: the bits that differ, plus the carries one place up.
RECURSIVE AddBits(_, _)
AddBits(A, B) ==
    IF B = {} THEN A
    ELSE AddBits((A \ B) \cup (B \ A), Shift(A \cap B, 1))

\* The bits of a natural number below 2^31.
FromNat(k) == {p \in 0..30 : (k \div (2 ^ p)) % 2 = 1}

\* Exact product of a bit set and a natural number k, P being the bits of k.
RECURSIVE SumShifts(_, _)
SumShifts(S, P) ==
    IF P = {} THEN {}
    ELSE AddBits(Shift(S, Top(P)), SumShifts(S, P \ {Top(P)}))
MulNat(S, k) == SumShifts(S, FromNat(k))

\* Rounding of an exact value to a double; sticky tells that the exact value
\* has further 1 bits below the ones in S.
Round53(S, sticky) ==
    IF S = {} THEN {}
    ELSE LET t == Top(S)
             keep == {p \in S : p >= t - 52}
             guard == (t - 53) \in S
             rest == sticky \/ (\E p \in S : p < t - 53)
             up == guard /\ (rest \/ (t - 52) \in S)
         IN IF up THEN AddBits(keep, {t - 52}) ELSE keep

\* a / b for naturals a, b >= 1: long division to 64 binary places, rounded.
flDiv(a, b) ==
    LET rem[i \in 0..64] == IF i = 0 THEN a % b ELSE (2 * rem[i - 1]) % b
        frac == {0 - i : i \in {j \in 1..64 : 2 * rem[j - 1] >= b}}
    IN Round53(FromNat(a \div b) \cup frac, rem[64] # 0)

\* k * x for a natural k and a double x; x + y.
flMul(k, x) == Round53(MulNat(x, k), FALSE)
flAdd(x, y) == Round53(AddBits(x, y), FALSE)

\* x < y.
flLess(x, y) == x # y /\ Top((x \ y) \cup (y \ x)) \in y

\* Math.max(a, b): NaN when either argument is NaN.
MathMax(a, b) ==
    IF a.nan \/ b.nan THEN NaN
    ELSE IF flLess(a.bits, b.bits) THEN b ELSE a

\* -------------------------------------------- measureMemoryDeltaMB (web)
\* The properties by which the estimate tells the structures apart.
Keys(k) ==
    CASE k = "AM" -> {"_bits"}
      [] k = "AL" -> {"_out", "_in"}
      [] k = "AM+AL" -> {"_out", "_in", "_am"}
      [] k = "OOP" -> {"_net"}

\* (uint32sNeeded * 4) / (1024 * 1024) with uint32sNeeded = ceil(n * n / 32);
\* dividing by 2^20 moves every bit down 20 places.
amMB(nn) == Shift(FromNat(((nn * nn + 31) \div 32) * 4), 0 - 20)

\* avgDegree = edges.length / n; arrayMemory = n * avgDegree * 8;
\* setMemory = n * avgDegree * 16; (arrayMemory + setMemory) / (1024 * 1024).
\* With n = 0 the quotient is NaN (0 / 0) or Infinity, and 0 times either is
\* NaN.
listMB(nn, m) ==
    IF nn = 0 THEN NaN
    ELSE LET avgDegree == flDiv(m, nn)
             arrayMemory == Shift(flMul(nn, avgDegree), 3)
             setMemory == Shift(flMul(nn, avgDegree), 4)
         IN Double(Shift(flAdd(arrayMemory, setMemory), 0 - 20))

\* (nodeCount * 200 + linkCount * 100) / (1024 * 1024)
netMB(nn, m) == Shift(FromNat(nn * 200 + m * 100), 0 - 20)

estimatedMB(keys, nn, m) ==
    IF "_bits" \in keys THEN Double(amMB(nn))
    ELSE IF "_out" \in keys /\ "_in" \in keys
    THEN LET est == listMB(nn, m)
         IN IF "_am" \in keys /\ ~est.nan
            THEN Double(flAdd(est.bits, amMB(nn)))
            ELSE est
    ELSE IF "_net" \in keys THEN Double(netMB(nn, m))
    ELSE Double({})

\* return { deltaMB: Math.max(0.001, estimatedMB), structure }; the literal
\* 0.001 is the double nearest to 1 / 1000.
measureMemoryDeltaMB(k, nn, m) ==
    MathMax(Double(flDiv(1, 1000)), estimatedMB(Keys(k), nn, m))

\* One call, for any variant, vertex count and edge count.
MemInit ==
    /\ n = 0
    /\ avgOutDeg = 0
    /\ edges = <<>>
    /\ pc = "memory"
    /\ NothingBuilt
    /\ BenchIdle
    /\ PageIdle
    /\ HasIdle
    /\ \E k \in Variants : \E nn \in 0..MaxMemN : \E m \in 0..MaxMemM :
         mem = [kind |-> k, n |-> nn, m |-> m,
                deltaMB |-> measureMemoryDeltaMB(k, nn, m),
                grown |-> FALSE, before |-> NoBefore]

\* The next call, for the same variant with one more vertex or one more edge.
MemGrow(dn, dm) ==
    /\ pc = "memory"
    /\ ~mem.grown
    /\ mem.n + dn <= MaxMemN
    /\ mem.m + dm <= MaxMemM
    /\ mem' = [kind |-> mem.kind, n |-> mem.n + dn, m |-> mem.m + dm,
               deltaMB |-> measureMemoryDeltaMB(mem.kind, mem.n + dn, mem.m + dm),
               grown |-> TRUE,
               before |-> [n |-> mem.n, m |-> mem.m, deltaMB |-> mem.deltaMB]]
    /\ UNCHANGED <<coreVars, benchVars, pageVars, bh>>

MemMoreVertices == MemGrow(1, 0)
MemMoreEdges == MemGrow(0, 1)

NextMem ==
    \/ MemMoreVertices
    \/ MemMoreEdges

SpecMem == MemInit /\ [][NextMem]_vars

\* ------------------------------------------------------------------ the page
\* Home (page.tsx) with its Run button, ConfigPanel and BenchmarkRunner.  An
\* execution of runRealBenchmark runs from one await to the next without
\* interruption; between two awaits of one execution the event loop may run
\* a step of another execution or an event of the page.
PageConfigs == {<<>>} \cup {<<s>> : s \in 1..MaxPageN}

\* An edge sequence genEdges(n, 2) can return: every draw of randInt gives 0.
firstEdges(nn) == [j \in 1..genEdgesM(nn, 8) |-> <<0, 1>>]

\* Whether the builder of variant k throws on it.
builderThrows(k, nn) ==
    CASE k = "AM" -> makeAM(nn, firstEdges(nn)).status = "threw"
      [] k = "AL" -> makeAL(nn, firstEdges(nn)).status = "threw"
      [] k = "AM+AL" -> makeAM_AL(nn, firstEdges(nn)).status = "threw"
      [] k = "OOP" -> makeOOP(nn, firstEdges(nn)).status = "threw"

\* The same, tabulated for the sizes the size box can hold.
throwsAt == [k \in {"AM", "AL", "AM+AL", "OOP"}, nn \in 1..MaxPageN |->
                builderThrows(k, nn)]

\* runRealBenchmark(config, onProgress) up to its first await: with sizes,
\* genEdges, onProgress(0) and the AM builder inside the first memory probe;
\* without sizes, onProgress(100) and the return of the empty results.
\* i is the position in sizes, k the variant whose benchmarks come next
\* (0: the iteration has not started), rows the n of each row pushed.
Started(by, sizes) ==
    IF sizes = <<>>
    THEN [by |-> by, sizes |-> sizes, i |-> 1, k |-> 0, rows |-> <<>>,
          state |-> "resolved"]
    ELSE [by |-> by, sizes |-> sizes, i |-> 1, k |-> 1, rows |-> <<>>,
          state |-> IF throwsAt["AM", sizes[1]] THEN "rejected"
                    ELSE "running"]
FirstProgress(sizes) == IF sizes = <<>> THEN <<100, 1>> ELSE <<0, Len(sizes)>>

\* The page as first rendered, with any size list the size box can hold.
PageInit ==
    /\ n = 0
    /\ avgOutDeg = 0
    /\ edges = <<>>
    /\ pc = "page"
    /\ NothingBuilt
    /\ BenchIdle
    /\ mem = NoMem
    /\ config \in PageConfigs
    /\ isRunning = FALSE
    /\ pageProgress = <<0, 1>>
    /\ results = <<>>
    /\ execs = <<>>
    /\ effectConfig = Unmounted
    /\ lastRun = NoRun
    /\ HasIdle

\* handleSizesChange: the size box is edited (it stays enabled during a run).
ChangeConfig ==
    /\ pc = "page"
    /\ \E sizes \in PageConfigs \ {config} : config' = sizes
    /\ UNCHANGED <<coreVars, benchVars, mem, bh, isRunning, pageProgress,
                   results, execs, effectConfig, lastRun>>

\* handleRun, up to its await: the button is enabled while isRunning is
\* false; setIsRunning(true), setProgress(0), setResults([]), then the call
\* of runRealBenchmark(config, setProgress).
PressRun ==
    /\ pc = "page"
    /\ ~isRunning
    /\ Len(execs) < MaxExecs
    /\ isRunning' = TRUE
    /\ results' = <<>>
    /\ pageProgress' = FirstProgress(config)
    /\ execs' = Append(execs, Started("handleRun", config))
    /\ lastRun' = [outcome |-> "pending", rows |-> <<>>]
    /\ UNCHANGED <<coreVars, benchVars, mem, bh, config, effectConfig>>

\* The page renders BenchmarkRunner while isRunning is true; its effect runs
\* after the first render and after every render in which config has
\* changed: runRealBenchmark(config, onProgress).then(onComplete).
RunnerEffect ==
    /\ pc = "page"
    /\ isRunning
    /\ ~effectConfig.mounted \/ effectConfig.sizes # config
    /\ Len(execs) < MaxExecs
    /\ effectConfig' = [mounted |-> TRUE, sizes |-> config]
    /\ pageProgress' = FirstProgress(config)
    /\ execs' = Append(execs, Started("effect", config))
    /\ UNCHANGED <<coreVars, benchVars, mem, bh, config, isRunning, results,
                   lastRun>>

\* One execution goes on from an await to the next one.
\*   k = 0      onProgress((i - 1) / length * 100), genEdges, the AM builder
\*   k = 1..3   lookups and traversals of variant k, the pause, the builder
\*              of variant k + 1 (a throw rejects the promise)
\*   k = 4      lookups and traversals of OOP, results.push, the pause
ExecStep(j) ==
    LET e == execs[j]
        size == e.sizes[e.i]
    IN /\ pc = "page"
       /\ e.state = "running"
       /\ e.i <= Len(e.sizes)
       /\ execs' = [execs EXCEPT ![j] =
            IF e.k = 0
            THEN [e EXCEPT !.k = 1,
                           !.state = IF throwsAt["AM", size]
                                     THEN "rejected" ELSE "running"]
            ELSE IF e.k < 4
            THEN [e EXCEPT !.k = e.k + 1,
                           !.state = IF throwsAt[VariantOrder[e.k + 1], size]
                                     THEN "rejected" ELSE "running"]
            ELSE [e EXCEPT !.k = 0, !.i = e.i + 1, !.rows = Append(e.rows, size)]]
       /\ pageProgress' = IF e.k = 0 THEN <<(e.i - 1) * 100, Len(e.sizes)>>
                          ELSE pageProgress
       /\ UNCHANGED <<coreVars, benchVars, mem, bh, config, isRunning, results,
                      effectConfig, lastRun>>

\* After the loop: onProgress(100); return results.
ExecReturn(j) ==
    /\ pc = "page"
    /\ execs[j].state = "running"
    /\ execs[j].i > Len(execs[j].sizes)
    /\ execs' = [execs EXCEPT ![j].state = "resolved"]
    /\ pageProgress' = <<100, 1>>
    /\ UNCHANGED <<coreVars, benchVars, mem, bh, config, isRunning, results,
                   effectConfig, lastRun>>

Remove(seq, j) == [x \in 1..(Len(seq) - 1) |-> IF x < j THEN seq[x] ELSE seq[x + 1]]

\* The promise of handleRun's execution is settled: setResults on success,
\* console.error on failure, and in both cases setIsRunning(false) and
\* setProgress(0); BenchmarkRunner is no longer rendered.
HandleRunSettled(j) ==
    /\ pc = "page"
    /\ execs[j].by = "handleRun"
    /\ execs[j].state \in {"resolved", "rejected"}
    /\ results' = IF execs[j].state = "resolved" THEN execs[j].rows ELSE results
    /\ isRunning' = FALSE
    /\ pageProgress' = <<0, 1>>
    /\ effectConfig' = Unmounted
    /\ execs' = Remove(execs, j)
    /\ lastRun' = [outcome |-> execs[j].state,
                   rows |-> IF execs[j].state = "resolved" THEN execs[j].rows
                            ELSE <<>>]
    /\ UNCHANGED <<coreVars, benchVars, mem, bh, config>>

\* The promise of an effect's execution is settled: onComplete(results) on
\* success; a rejection has no handler.
EffectSettled(j) ==
    /\ pc = "page"
    /\ execs[j].by = "effect"
    /\ execs[j].state \in {"resolved", "rejected"}
    /\ results' = IF execs[j].state = "resolved" THEN execs[j].rows ELSE results
    /\ execs' = Remove(execs, j)
    /\ UNCHANGED <<coreVars, benchVars, mem, bh, config, isRunning,
                   pageProgress, effectConfig, lastRun>>

NextPage ==
    \/ ChangeConfig
    \/ PressRun
    \/ RunnerEffect
    \/ \E j \in 1..Len(execs) : ExecStep(j)
    \/ \E j \in 1..Len(execs) : ExecReturn(j)
    \/ \E j \in 1..Len(execs) : HandleRunSettled(j)
    \/ \E j \in 1..Len(execs) : EffectSettled(j)

SpecPage == PageInit /\ [][NextPage]_vars

\* The event loop runs every continuation whose timer or promise is due: a
\* step of handleRun's execution, and the handler of its settled promise, is
\* not postponed for ever.
RunStep ==
    \E j \in 1..Len(execs) :
        /\ execs[j].by = "handleRun"
        /\ ExecStep(j) \/ ExecReturn(j) \/ HandleRunSettled(j)

SpecPageLive == PageInit /\ [][NextPage]_vars /\ WF_vars(RunStep)

\* ================================================================== claims

\* C1: for every generated edge sequence with n >= 2 and every pair u < v of
\* vertices, the four structures built from that sequence give the same
\* has(u, v), true exactly when (u, v) occurs in the sequence.
C1_HasAgreement ==
    (pc = "done" /\ n >= 2) =>
        /\ AllBuilt
        /\ \A u \in V : \A v \in V :
             u < v => \A k \in Variants :
                        has(k, u, v) <=> (<<u, v>> \in Range(edges))

\* A two-word matrix holding an edge whose bit lies in the second word, next
\* to a pair that is no edge.
C1_Witness ==
    /\ pc = "done"
    /\ n >= 2
    /\ \E u \in V : \E v \in V :
         /\ u < v
         /\ <<u, v>> \in Range(edges)
         /\ amIdx(n, u, v) >= 32
         /\ \A k \in Variants : has(k, u, v)
    /\ \E u \in V : \E v \in V :
         /\ u < v
         /\ <<u, v>> \notin Range(edges)
         /\ \A k \in Variants : ~has(k, u, v)

\* C2: for every generated edge sequence and every vertex u, the set of
\* values of outNeighbors(u) is the same for all four variants, and likewise
\* the set of values of inNeighbors(u).
C2_NeighborSetAgreement ==
    pc = "done" =>
        /\ AllBuilt
        /\ \A u \in V : \A k1 \in Variants : \A k2 \in Variants :
             /\ Range(outNeighbors(k1, u)) = Range(outNeighbors(k2, u))
             /\ Range(inNeighbors(k1, u)) = Range(inNeighbors(k2, u))

\* C3: for each of the four variants built from a generated edge sequence,
\* the out-degrees summed over all vertices equal edges.length, and so do the
\* in-degrees.
C3_DegreeSum ==
    pc = "done" =>
        /\ AllBuilt
        /\ \A k \in Variants :
             /\ SumLen([u \in V |-> outNeighbors(k, u)], V) = Len(edges)
             /\ SumLen([v \in V |-> inNeighbors(k, v)], V) = Len(edges)

\* C4: for n >= 2 every edge (u, v) genEdges has pushed satisfies
\* 0 <= u < v <= n - 1.
C4_EdgesForward ==
    n >= 2 =>
        \A i \in 1..Len(edges) :
            /\ 0 <= edges[i][1]
            /\ edges[i][1] < edges[i][2]
            /\ edges[i][2] <= n - 1

\* genEdges has returned several edges, one of them reaching the last vertex.
C4_Witness ==
    /\ n >= 3
    /\ pc = "makeAM"
    /\ Len(edges) >= 2
    /\ \E i \in 1..Len(edges) : edges[i][2] = n - 1
    /\ \E i \in 1..Len(edges) : edges[i][1] = n - 2

C6_SingleVertexEmpty ==
    (n = 1 /\ pc # "genEdges") => edges = <<>>

\* C7: for n = 0 and n = 1 each builder builds without throwing from the
\* generated edge sequence, every has query is false and every
\* outNeighbors / inNeighbors query on a vertex is empty.
C7_DegenerateSizes ==
    (pc = "done" /\ n <= 1) =>
        /\ AllBuilt
        /\ \A k \in Variants : \A u \in V :
             /\ \A v \in V : ~has(k, u, v)
             /\ outNeighbors(k, u) = <<>>
             /\ inNeighbors(k, u) = <<>>

\* C9: in the hybrid built from any edge sequence with endpoints in 0..n-1,
\* the bitset lookup and the outSet lookup agree on every pair of vertices,
\* so has, their OR, equals each of them and equals has of makeAM and of
\* makeAL built from the same sequence.
C9_HybridLookupsAgree ==
    pc = "done" =>
        /\ AllBuilt
        /\ \A u \in V : \A v \in V :
             LET hybrid == amalHas(amal, u, v)
                 amResult == amalAmResult(amal, u, v)
             IN /\ amResult <=> amalAlResult(amal, u, v)
                /\ hybrid <=> amResult
                /\ hybrid <=> has("AM", u, v)
                /\ hybrid <=> has("AL", u, v)

\* A hybrid holding a backward edge whose bit lies in the second word.
C9_Witness ==
    /\ pc = "done"
    /\ \E u \in V : \E v \in V :
         /\ u >= v
         /\ <<u, v>> \in Range(edges)
         /\ amalIdx(n, u, v) >= 32
         /\ amalAmResult(amal, u, v)
         /\ amalAlResult(amal, u, v)
    /\ \E u \in V : \E v \in V : ~amalHas(amal, u, v)

\* C10: for every variant built from a generated edge sequence, has(a, b) is
\* false for every pair a >= b of vertices: the reverse of an edge and
\* has(u, u) included.
C10_NoBackwardEdge ==
    \A k \in Variants :
        Built(k) => \A a \in V : \A b \in V : a >= b => ~has(k, a, b)

\* All four variants hold the forward edge (u, v) and deny (v, u) and (u, u).
C10_Witness ==
    /\ pc = "done"
    /\ AllBuilt
    /\ \E u \in V : \E v \in V :
         /\ <<u, v>> \in Range(edges)
         /\ \A k \in Variants :
              has(k, u, v) /\ ~has(k, v, u) /\ ~has(k, u, u)

\* C8: when the vertex count is 0 or 1, no normalisation of the benchmark
\* loop evaluates a quotient with a zero denominator: neither the traversal
\* ns/op elapsed / (n * R) nor the sparsity edges / (n * (n - 1)).
C8_NoZeroDenominator ==
    n <= 1 =>
        /\ \A k \in Variants :
             /\ outNs[k].set => outNs[k].den # 0
             /\ inNs[k].set => inNs[k].den # 0
        /\ sparsity.set => sparsity.den # 0

\* C11: every ns/op field (hasEdge, traverseOut, traverseIn of each of the
\* four variants) of every row the cli loop or runRealBenchmark has appended
\* is a finite number >= 0, never NaN or Infinity, for sizes, sample counts
\* and repetition counts >= 0 and a clock that does not go back.
C11_FiniteTimings ==
    \A i \in 1..Len(rows) : \A k \in Variants :
        /\ rows[i].hasEdge[k].kind = "finite"
        /\ rows[i].traverseOut[k].kind = "finite"
        /\ rows[i].traverseIn[k].kind = "finite"

\* C12: the sparsity percentage 100 * edges.length / (n * (n - 1)) recorded
\* in a row of runRealBenchmark is a number in [0, 100); the row holds it
\* rounded to hundredths.
C12_SparsityRange ==
    entry = "web" =>
        \A i \in 1..Len(rows) :
            /\ rows[i].sparsity.kind = "finite"
            /\ rows[i].sparsity.digits >= 0
            /\ rows[i].sparsity.digits < 10000

\* C15: in both entry points no core function runs on a vertex count that is
\* not positive: whenever genEdges, a builder or a benchmark is running, n > 0.
C15_SizesValidated ==
    (entry \in {"cli", "web"} /\ pc \notin {"for", "finished"}) => n > 0

\* C17: in the cli loop, when the structure of a later variant has been
\* constructed and probed, nothing holds the structure of the variant before
\* it any more.
C17_PreviousReleased ==
    (entry = "cli" /\ pc = "benchHasEdge" /\ vi > 1) =>
        refs[VariantOrder[vi - 1]] = {}

\* C18: for every size and every variant the builder is invoked exactly once:
\* never for a variant that has not been probed yet, once for one that has.
C18_BuiltOnce ==
    entry \in {"cli", "web"} =>
        \A k \in Variants :
            calls[k] = IF Struct(k).status = "none" THEN 0 ELSE 1

\* C19: for each size genEdges is entered once, from the head of the loop,
\* and once it has returned no step of the iteration (no builder, no lookup
\* benchmark, no traversal benchmark, no row) changes the edge sequence: all
\* four builders receive the same pairs in the same order.
C19_EdgesReadOnly ==
    [][/\ (pc' = "genEdges" /\ pc # "genEdges") => pc = "for"
       /\ (pc' = "for" /\ pc # "for") => sizeIdx' = sizeIdx + 1
       /\ pc \notin {"for", "genEdges"} => edges' = edges]_vars

\* An iteration with a non-empty edge sequence has run all four builders and
\* benchmarks and is about to append its row.
C19_Witness ==
    /\ entry \in {"cli", "web"}
    /\ pc = "row"
    /\ Len(edges) > 0
    /\ AllBuilt

\* C20: for every size n >= 1 the divisor of the traversal ns/op of each
\* variant is n * R with R = max(1, floor(baseReps / n)), in the cli loop and
\* in runRealBenchmark, R being the repetition count handed to
\* benchTraversals.
C20_RepsFormula ==
    (entry \in {"cli", "web"} /\ n >= 1) =>
        \A k \in Variants :
            /\ outNs[k].set => outNs[k].den = n * Max(1, TRAVERSAL_REPS \div n)
            /\ inNs[k].set => inNs[k].den = n * Max(1, TRAVERSAL_REPS \div n)

\* C13: the estimate the web measureMemoryDeltaMB returns does not decrease
\* when, for the same variant, the vertex count (>= 1) or the edge count
\* grows: the value of the call before is <= the value of the call after.
C13_EstimateMonotone ==
    (mem.grown /\ mem.before.n >= 1) =>
        /\ ~mem.deltaMB.nan
        /\ ~mem.before.deltaMB.nan
        /\ ~flLess(mem.deltaMB.bits, mem.before.deltaMB.bits)

\* C14: for n = 0 and no edges the estimate of each of the four variants is
\* the fixed floor 0.001: a finite number > 0, not NaN.
C14_EmptyGraphEstimate ==
    (mem.kind \in Variants /\ mem.n = 0 /\ mem.m = 0) =>
        /\ ~mem.deltaMB.nan
        /\ mem.deltaMB.bits # {}
        /\ mem.deltaMB = Double(flDiv(1, 1000))

\* C16: in the web page at most one execution of runRealBenchmark is in
\* progress at any time, and every execution is the one a press of Run
\* started through handleRun: no second execution runs its steps between
\* the steps of the first, also when the configuration changes during a run.
C16_OneExecution ==
    /\ Cardinality({j \in 1..Len(execs) : execs[j].state = "running"}) <= 1
    /\ \A j \in 1..Len(execs) : execs[j].by = "handleRun"

\* C21: for n >= 2 every query pair (u, v) that benchHasEdge has generated
\* has 0 <= u < v <= n - 1; none is a self-pair (u, u).
C21_PairsAscending ==
    n >= 2 =>
        \A i \in 1..Len(bh.pairs) :
            /\ 0 <= bh.pairs[i][1]
            /\ bh.pairs[i][1] < bh.pairs[i][2]
            /\ bh.pairs[i][2] <= n - 1

\* C22: in benchHasEdge all S pairs exist when t0 is read and none is
\* generated afterwards; no has call is made before t0 is read or after t1 is
\* read, and exactly S have been made when t1 is read; the reported lookup
\* ns/op is the quotient (t1 - t0) * 1e6 / S.
C22_TimedRegion ==
    /\ [](/\ bh.t0 = -1 => bh.calls = 0
          /\ bh.t0 # -1 => Len(bh.pairs) = LOOKUP_SAMPLES
          /\ bh.t1 # -1 => bh.calls = LOOKUP_SAMPLES
          /\ (pc = "done" /\ bh.t1 # -1) =>
                lookupNs[VariantOrder[vi]] =
                    Quot((bh.t1 - bh.t0) * 1000000, LOOKUP_SAMPLES))
    /\ [][/\ bh.t0 # -1 => bh'.pairs = bh.pairs
          /\ bh.t1 # -1 => bh'.calls = bh.calls]_vars

\* A lookup benchmark of two samples has returned; the clock stood above 0
\* at t0 and advanced before t1.
C22_Witness ==
    /\ pc = "done"
    /\ LOOKUP_SAMPLES = 2
    /\ bh.calls = 2
    /\ bh.t0 > 0
    /\ bh.t1 > bh.t0
    /\ lookupNs[VariantOrder[vi]].num = (bh.t1 - bh.t0) * 1000000

\* C30: for every n >= 0 and every sample count, both components of every
\* pair benchHasEdge has passed to struct.has are vertex indices in 0..n-1.
C30_QueriesInRange ==
    \A i \in 1..bh.calls :
        /\ bh.pairs[i][1] \in 0..(n - 1)
        /\ bh.pairs[i][2] \in 0..(n - 1)

\* C23: in the steps of a loop-body iteration (the probe's own memory
\* readings aside), every construction, lookup benchmark and traversal
\* benchmark comes directly after a settle step, and the step after it, once
\* taken, is a settle step.
C23_SettleAroundPhases ==
    LET steps == SelectSeq(log, LAMBDA e : e # "readMemory")
    IN \A i \in 1..Len(steps) :
          steps[i] \in {"build", "lookup", "traverse"} =>
              /\ i > 1
              /\ steps[i - 1] = "settle"
              /\ i < Len(steps) => steps[i + 1] = "settle"

\* C24: for any edge sequence with endpoints in 0..n-1 and every vertex u,
\* outNeighbors(u) of the hybrid, of the list and of the object graph are all
\* the targets of the edges leaving u, in edge-sequence order with duplicates
\* kept; inNeighbors(u) likewise are the sources of the edges entering u.
C24_NeighborsInEdgeOrder ==
    pc = "done" =>
        \A u \in V :
            LET leaving == SelectSeq(edges, LAMBDA e : e[1] = u)
                entering == SelectSeq(edges, LAMBDA e : e[2] = u)
                targets == [i \in 1..Len(leaving) |-> leaving[i][2]]
                sources == [i \in 1..Len(entering) |-> entering[i][1]]
            IN \A k \in {"AM+AL", "AL", "OOP"} :
                  /\ outNeighbors(k, u) = targets
                  /\ inNeighbors(k, u) = sources

\* Two edges leave one vertex, the larger target first, and two edges enter
\* one vertex, the larger source first; or the same edge occurs twice.
C24_Witness ==
    /\ pc = "done"
    /\ Len(edges) = 2
    /\ \/ /\ edges[1][1] = edges[2][1]
          /\ edges[1][2] > edges[2][2]
          /\ outNeighbors("OOP", edges[1][1]) = <<edges[1][2], edges[2][2]>>
          /\ outNeighbors("AM+AL", edges[1][1]) = <<edges[1][2], edges[2][2]>>
       \/ /\ edges[1] = edges[2]
          /\ outNeighbors("AL", edges[1][1]) = <<edges[1][2], edges[1][2]>>

\* C25: in makeAM, for n >= 1 and an edge (u, v) with 0 <= u, v <= n-1 added
\* to the sequence, idx = u*n + v lies below 32 * bits.length and differs
\* from the idx of every other in-range pair; the bitset built with the edge
\* has has(u, v) true and has(u', v') as without the edge for every other
\* in-range pair (u', v').
C25_SetOneBit ==
    [][(pc = "seqEdges" /\ Len(edges') = Len(edges) + 1) =>
         LET u == edges'[Len(edges')][1]
             v == edges'[Len(edges')][2]
             before == makeAM(n, edges).bits
             after == makeAM(n, edges').bits
         IN /\ amIdx(n, u, v) >= 0
            /\ amIdx(n, u, v) < 32 * Cardinality(DOMAIN before)
            /\ Ushr5(amIdx(n, u, v)) \in DOMAIN after
            /\ amHas(after, n, u, v)
            /\ \A u2 \in V : \A v2 \in V :
                 <<u2, v2>> # <<u, v>> =>
                    /\ amIdx(n, u2, v2) # amIdx(n, u, v)
                    /\ amHas(after, n, u2, v2) <=> amHas(before, n, u2, v2)]_vars

\* An edge has been added whose bit lies in the second word: its bit is set
\* and the bit of every other pair, the one 32 positions below included, is
\* as before.
C25_Witness ==
    /\ pc = "seqEdges"
    /\ Len(edges) = 1
    /\ amIdx(n, edges[1][1], edges[1][2]) >= 32
    /\ amHas(makeAM(n, edges).bits, n, edges[1][1], edges[1][2])
    /\ \A u \in V : \A v \in V :
         <<u, v>> # edges[1] => ~amHas(makeAM(n, edges).bits, n, u, v)

\* C29: for each of the four variants built from any edge sequence with
\* endpoints in 0..n-1 and all vertices u, v: v occurs in outNeighbors(u)
\* exactly if u occurs in inNeighbors(v), and exactly if has(u, v) is true.
C29_OutInHasAgree ==
    pc = "done" =>
        \A k \in Variants :
            LET outs == [u \in V |-> Range(outNeighbors(k, u))]
                ins == [v \in V |-> Range(inNeighbors(k, v))]
            IN \A u \in V : \A v \in V :
                  /\ (v \in outs[u]) <=> (u \in ins[v])
                  /\ (v \in outs[u]) <=> has(k, u, v)

\* A backward edge and a self-loop are in the sequence, and all four
\* variants report the backward edge in all three queries.
C29_Witness ==
    /\ pc = "done"
    /\ AllBuilt
    /\ \E u \in V : \E v \in V :
         /\ u > v
         /\ edges = <<<<u, v>>, <<v, v>>>>
         /\ \A k \in Variants :
              /\ has(k, u, v)
              /\ v \in Range(outNeighbors(k, u))
              /\ u \in Range(inNeighbors(k, v))
              /\ ~has(k, v, u)

\* C26: a run over the size list that raises no error ends with one row per
\* size, row i having n = SIZES[i]; while the iteration for size i works, the
\* rows are those of the i - 1 sizes before it; a row is appended only when
\* all four variants of its size have been built, looked up and traversed,
\* the next step being the start of the next size; and rows already
\* appended never change.
C26_RowPerSize ==
    /\ [](entry \in {"cli", "web"} =>
            /\ pc = "finished" =>
                 /\ Len(rows) = Len(SIZES)
                 /\ \A i \in 1..Len(SIZES) : rows[i].n = SIZES[i]
            /\ Len(rows) = sizeIdx - 1)
    /\ [][/\ \A i \in 1..Len(rows) : i <= Len(rows') /\ rows'[i] = rows[i]
          /\ rows' # rows =>
               /\ Len(rows') = Len(rows) + 1
               /\ rows'[Len(rows')].n = SIZES[sizeIdx]
               /\ pc' = "for"
               /\ sizeIdx' = sizeIdx + 1
               /\ AllBuilt
               /\ \A x \in {"build", "lookup", "traverse"} :
                    Cardinality({i \in 1..Len(log) : log[i] = x}) = 4
               /\ \A k \in Variants :
                    lookupNs[k].set /\ outNs[k].set /\ inNs[k].set]_vars

\* A run over two different sizes has finished with their two rows.
C26_Witness ==
    /\ pc = "finished"
    /\ Len(SIZES) = 2
    /\ SIZES[1] # SIZES[2]
    /\ Len(rows) = 2
    /\ rows[1].n = SIZES[1]
    /\ rows[2].n = SIZES[2]

\* C28: in the web page, while isRunning is false after a run has finished,
\* progress is 0 and, the run having returned rows, results are those rows:
\* no callback of an execution that is still pending has changed them.
C28_QuietAfterRun ==
    (~isRunning /\ lastRun.outcome \in {"resolved", "rejected"}) =>
        /\ pageProgress = <<0, 1>>
        /\ lastRun.outcome = "resolved" => results = lastRun.rows

\* C27: in the web page isRunning is true from the press of Run until
\* handleRun's await has ended; it then becomes false again with progress 0,
\* whether runRealBenchmark resolved or threw; and after a run that threw,
\* results are the empty list set at the start of the run.
C27_RunEnds ==
    /\ [](lastRun.outcome = "pending" => isRunning)
    /\ isRunning ~> (~isRunning /\ pageProgress = <<0, 1>>)
    /\ []((~isRunning /\ lastRun.outcome = "rejected") => results = <<>>)

====
